---- MODULE Spec2Model ----
(***************************************************************************)
(* Hazard-pointer reclamation (haphazard): holders (src/holder.rs), object *)
(* references (src/object.rs) and the domain they talk to.  The domain     *)
(* module itself (slot list, retire list, scan) is not part of the source  *)
(* tree at hand; its operations follow sections 3 and 4.1 of the           *)
(* specification.                                                          *)
(***************************************************************************)
EXTENDS Integers, Sequences, FiniteSets, TLC

\* ---------------------------------------------------------------- bounds
MaxObj == 3        \* objects ever allocated (the first is the initial content of x)
MaxDom == 3        \* domains constructed after the two of tests/lib.rs feels_bad
MaxRetire == 2     \* retire calls made on raw pointers (tests/lib.rs:150, 162)

Null == 0
Obj == 1..MaxObj
Ptr == 0..MaxObj
\* The threads: two readers (h and h2 of tests/lib.rs feels_good), two
\* writers and two threads that run eager_reclaim.  Each specification below
\* says which of them it lets run.
Holders == {1, 2}
Writers == {1, 2}
Scanners == {1, 2}

\* Two domains, as in tests/lib.rs feels_bad: W guards the owned cell, R is
\* another domain.
Domains == {"W", "R"}
\* Three cells: x is an AtomicBox (object.rs:109-116) created in domain W,
\* p is a bare AtomicPtr (object.rs:153-168), and n is a cell of a client's
\* own kind (an implementation of HazPtrObjectRef, object.rs:38-54) that
\* saves the identity of domain W and holds null.
Cells == {"x", "p", "n"}
Deleters == {"drop_box", "drop_arc"}

NoId == 0
\* Family witnesses handed to the domain constructor: the unit value &() of
\* tests/lib.rs:96-97 and one other value.
Witnesses == {"unit", "fam"}
\* The threads that construct further domains.
Makers == {1, 2}

VARIABLES
    domAlive,     \* [Domains -> BOOLEAN]      domain not yet dropped
    slots,        \* [Domains -> Seq([protected: Ptr, active: BOOLEAN])]
    retired,      \* [Domains -> Seq([ptr: Obj, deleter: Deleters])]
    nAlloc,       \* the addresses 1..nAlloc have been handed out
    objDom,       \* [Obj -> Domains]  what domain() returns for the object at the address
    deleted,      \* [Obj -> Nat]      deleter invocations on the object at the address
    cellPtr,      \* [Cells -> Ptr]    content of each atomic pointer cell
    holder,       \* [Holders -> holder record]
    writer,       \* [Writers -> [ref, ptr]]
    scan,         \* [Scanners -> scan record]
    retireCalls,  \* [Obj -> Nat]      retire calls made on the object at the address
    freedSum,     \* [Domains -> Nat]  sum of the freed counts of scans and drop
    ids,          \* identity counter, identities of the domains, constructions
    delLog,       \* [Obj -> [supplied, invoked]]  deleters given to retire / run on the pointer
    rawObj,       \* objects handed out as raw pointers (Box::into_raw, Arc::into_raw)
    crashed,      \* the process was killed by a fault (use of a freed object)
    nMade,        \* number of objects allocated so far
    retireSum,    \* [Domains -> Nat]  number of retire calls handed to the domain
    reported      \* the domains whose drop found a slot still active

vars == <<domAlive, slots, retired, nAlloc, objDom, deleted, cellPtr,
          holder, writer, scan, retireCalls, freedSum, ids, delLog, rawObj,
          crashed, nMade, retireSum, reported>>

\* ------------------------------------------------------- domain identity
\* address of a family witness
WitnessAddr(wit) == IF wit = "unit" THEN 1 ELSE 2

\* Identity source that is the address of the family witness.
NewDomainId_WitnessAddr(counter, wit) == WitnessAddr(wit)

\* Identity of a newly constructed domain (spec 4.1, new): the value of a
\* monotonic counter; the family witness does not enter it.
NewDomainId(counter, wit) == counter

\* Identity of a domain: every construction yields a fresh one (spec 4.1).
DomainId(d) == ids.of[d]

NoMake == [id |-> NoId, wit |-> "unit"]
\* number of constructions after Init, finished or under way
MakeCount == Len(ids.made) + Cardinality({t \in Makers : ids.pend[t].id # NoId})

\* HazPtrDomain::next(witness), first half: take the next identity from the
\* counter (one atomic read-modify-write).
DomainNextFetch(t, wit) ==
    /\ ids.pend[t].id = NoId
    /\ MakeCount < MaxDom
    /\ ids' = [ids EXCEPT !.next = @ + 1,
                          !.pend[t] = [id |-> NewDomainId(ids.next, wit), wit |-> wit]]
    /\ UNCHANGED <<domAlive, slots, retired, nAlloc, objDom, deleted, cellPtr,
                   holder, writer, scan, retireCalls, freedSum, delLog, rawObj, crashed,
                   nMade, retireSum, reported>>

\* HazPtrDomain::next(witness), second half: the domain with that identity
\* is returned to the caller.
DomainNextBuild(t) ==
    /\ ids.pend[t].id # NoId
    /\ ids' = [ids EXCEPT !.made = Append(@, ids.pend[t]), !.pend[t] = NoMake]
    /\ UNCHANGED <<domAlive, slots, retired, nAlloc, objDom, deleted, cellPtr,
                   holder, writer, scan, retireCalls, freedSum, delLog, rawObj, crashed,
                   nMade, retireSum, reported>>

\* HazPtrObjectRef::domain_id: Some(id) for AtomicBox, None for AtomicPtr.
AtomicBox_domain_id(c) == DomainId("W")
AtomicPtr_domain_id(c) == NoId
Client_domain_id(c) == DomainId("W")
domain_id(c) ==
    IF c = "x" THEN AtomicBox_domain_id(c)
    ELSE IF c = "p" THEN AtomicPtr_domain_id(c)
    ELSE Client_domain_id(c)

\* ------------------------------------------------------------ hazard slot
\* HazPtr::protect / HazPtr::reset on slot i of a slot list.
HazPtr_protect(sl, i, p) == [sl EXCEPT ![i].protected = p]
HazPtr_reset(sl, i) == [sl EXCEPT ![i].protected = Null]

\* Domain::acquire: reuse the first inactive slot or append a new one.
FreeSlots(sl) == {i \in 1..Len(sl) : ~sl[i].active}
AcquireIndex(sl) ==
    IF FreeSlots(sl) # {}
    THEN CHOOSE i \in FreeSlots(sl) : \A j \in FreeSlots(sl) : i <= j
    ELSE Len(sl) + 1
Domain_acquire(sl) ==
    IF FreeSlots(sl) # {}
    THEN [sl EXCEPT ![AcquireIndex(sl)].active = TRUE]
    ELSE Append(sl, [protected |-> Null, active |-> TRUE])
\* Domain::release: flip the slot to inactive, keep it in the list.
Domain_release(sl, i) == [sl EXCEPT ![i].active = FALSE]

\* ---------------------------------------------------------------- holders
NoRet == [kind |-> "none", val |-> Null]
\* mode names the call in progress (protect or try_protect), src the cell
\* of the holder's last call
NoHolder == [st |-> "none", dom |-> "W", slot |-> 0, pc |-> "idle",
             mode |-> "protect", ptr |-> Null, ptr2 |-> Null, src |-> "x",
             ret |-> NoRet]

Idle(h) == holder[h].st = "live" /\ holder[h].pc = "idle"

\* The first assertion of try_protect_actual (holder.rs:25-31).
DomainMismatch(h, c) ==
    domain_id(c) # NoId /\ DomainId(holder[h].dom) # domain_id(c)

\* HazPtrHolder::for_domain (holder.rs:69-74)
ForDomain(h, d) ==
    /\ holder[h].st = "none"
    /\ domAlive[d]
    /\ slots' = [slots EXCEPT ![d] = Domain_acquire(slots[d])]
    /\ holder' = [holder EXCEPT ![h] =
                    [NoHolder EXCEPT !.st = "live", !.dom = d,
                                     !.slot = AcquireIndex(slots[d])]]
    /\ UNCHANGED <<domAlive, retired, nAlloc, objDom, deleted, cellPtr,
                   writer, scan, retireCalls, freedSum,
                   ids, delLog, rawObj, crashed,
                   nMade, retireSum, reported>>

\* HazPtrHolder::protect up to its relaxed load (holder.rs:83-93) together
\* with the domain assertion of the first loop iteration (holder.rs:25-31).
ProtectLoad(h, c) ==
    /\ Idle(h)
    /\ IF DomainMismatch(h, c)
       THEN holder' = [holder EXCEPT ![h].pc = "panicked", ![h].mode = "protect",
                          ![h].src = c, ![h].ret = [kind |-> "panic", val |-> Null]]
       ELSE holder' = [holder EXCEPT ![h].pc = "loaded", ![h].mode = "protect",
                          ![h].ptr = cellPtr[c], ![h].src = c, ![h].ret = NoRet]
    /\ UNCHANGED <<domAlive, slots, retired, nAlloc, objDom, deleted, cellPtr,
                   writer, scan, retireCalls, freedSum,
                   ids, delLog, rawObj, crashed,
                   nMade, retireSum, reported>>

\* ProtectStore that goes on to the reload without writing the slot.
ProtectStore_Skipped(h) ==
    /\ holder[h].st = "live" /\ holder[h].pc = "loaded"
    /\ holder' = [holder EXCEPT ![h].pc = "stored"]
    /\ UNCHANGED <<domAlive, slots, retired, nAlloc, objDom, deleted, cellPtr,
                   writer, scan, retireCalls, freedSum,
                   ids, delLog, rawObj, crashed,
                   nMade, retireSum, reported>>

\* try_protect_actual, hazard.protect(ptr) (holder.rs:33) inside protect's loop.
ProtectStore(h) ==
    /\ ~crashed
    /\ holder[h].st = "live" /\ holder[h].pc = "loaded"
    /\ slots' = [slots EXCEPT ![holder[h].dom] =
                    HazPtr_protect(slots[holder[h].dom], holder[h].slot, holder[h].ptr)]
    /\ holder' = [holder EXCEPT ![h].pc = "stored"]
    /\ UNCHANGED <<domAlive, retired, nAlloc, objDom, deleted, cellPtr,
                   writer, scan, retireCalls, freedSum,
                   ids, delLog, rawObj, crashed,
                   nMade, retireSum, reported>>

\* TryProtect with the store of the candidate ahead of the domain assertion.
TryProtect_StoreFirst(h, c, p) ==
    /\ Idle(h)
    /\ slots' = [slots EXCEPT ![holder[h].dom] =
                    HazPtr_protect(slots[holder[h].dom], holder[h].slot, p)]
    /\ IF DomainMismatch(h, c)
       THEN holder' = [holder EXCEPT ![h].pc = "panicked", ![h].mode = "try",
                          ![h].src = c, ![h].ret = [kind |-> "panic", val |-> Null]]
       ELSE holder' = [holder EXCEPT ![h].pc = "stored", ![h].mode = "try",
                          ![h].ptr = p, ![h].src = c, ![h].ret = NoRet]
    /\ UNCHANGED <<domAlive, retired, nAlloc, objDom, deleted, cellPtr,
                   writer, scan, retireCalls, freedSum,
                   ids, delLog, rawObj, crashed,
                   nMade, retireSum, reported>>

\* HazPtrHolder::try_protect (holder.rs:113-128) up to and including the
\* store of the caller's candidate (holder.rs:25-33).
TryProtect(h, c, p) ==
    /\ Idle(h)
    /\ IF DomainMismatch(h, c)
       THEN /\ holder' = [holder EXCEPT ![h].pc = "panicked", ![h].mode = "try",
                             ![h].src = c, ![h].ret = [kind |-> "panic", val |-> Null]]
            /\ UNCHANGED slots
       ELSE /\ slots' = [slots EXCEPT ![holder[h].dom] =
                           HazPtr_protect(slots[holder[h].dom], holder[h].slot, p)]
            /\ holder' = [holder EXCEPT ![h].pc = "stored", ![h].mode = "try",
                             ![h].ptr = p, ![h].src = c, ![h].ret = NoRet]
    /\ UNCHANGED <<domAlive, retired, nAlloc, objDom, deleted, cellPtr,
                   writer, scan, retireCalls, freedSum,
                   ids, delLog, rawObj, crashed,
                   nMade, retireSum, reported>>

\* ProtectResult without the comparison of holder.rs:38: the candidate is
\* returned as protected although the cell has moved on.
ProtectResult_NoCompare(ptr, ptr2, bare, sameDom, debug) ==
    IF ptr = Null THEN [kind |-> "None", val |-> Null]
    ELSE IF bare /\ ~sameDom /\ debug THEN [kind |-> "panic", val |-> Null]
    ELSE [kind |-> "Some", val |-> ptr]

\* ProtectResult without NonNull::new (holder.rs:43): null comes back as Some.
ProtectResult_NoNullCheck(ptr, ptr2, bare, sameDom, debug) ==
    IF ptr # ptr2 THEN [kind |-> "Err", val |-> ptr2]
    ELSE IF ptr # Null /\ bare /\ ~sameDom /\ debug THEN [kind |-> "panic", val |-> Null]
    ELSE [kind |-> "Some", val |-> ptr]

\* Result of try_protect_actual once ptr2 has been loaded (holder.rs:38-64).
\* bare: the cell saved no domain; sameDom: r.domain() is the holder's domain;
\* debug: the build has debug assertions.  The check of the object's domain
\* is a debug_assert_eq! (holder.rs:55-59): a build without debug
\* assertions returns the object of the other domain.
ProtectResult(ptr, ptr2, bare, sameDom, debug) ==
    IF ptr # ptr2 THEN [kind |-> "Err", val |-> ptr2]
    ELSE IF ptr = Null THEN [kind |-> "None", val |-> Null]
    ELSE IF bare /\ ~sameDom /\ debug THEN [kind |-> "panic", val |-> Null]
    ELSE [kind |-> "Some", val |-> ptr]

\* SlotAfterValidate without the reset of holder.rs:39.
SlotAfterValidate_NoReset(sl, i, ptr, ptr2) == sl

\* The slot after the branch on the validating load (holder.rs:38-41): reset
\* on mismatch.
SlotAfterValidate(sl, i, ptr, ptr2) ==
    IF ptr # ptr2 THEN HazPtr_reset(sl, i) ELSE sl

\* ProtectValidate without the reload: whatever was stored counts as protected.
ProtectValidate_NoReload(h) ==
    /\ holder[h].st = "live" /\ holder[h].pc = "stored"
    /\ holder' = [holder EXCEPT ![h].ret =
                      IF holder[h].ptr = Null THEN [kind |-> "None", val |-> Null]
                      ELSE [kind |-> "Some", val |-> holder[h].ptr],
                    ![h].ptr = Null, ![h].mode = "protect", ![h].pc = "idle"]
    /\ UNCHANGED <<domAlive, slots, retired, nAlloc, objDom, deleted, cellPtr,
                   writer, scan, retireCalls, freedSum,
                   ids, delLog, rawObj, crashed,
                   nMade, retireSum, reported>>

\* What a read of the object's domain can yield (r.domain() at holder.rs:57,
\* (&*self).domain() at object.rs:26).  For a live object it is the object's
\* own domain.  For an object whose deleter has run the read is a use after
\* free: the memory may still hold the old reference, may have been handed
\* to an object of any other domain, or may be gone or hold no reference to
\* a domain at all ("fault").
DomainRead(p) ==
    IF deleted[p] = 0 THEN {objDom[p]} ELSE Domains \cup {"fault"}

\* try_protect_actual, the acquire load and the branch on it
\* (holder.rs:37-38), and the Ok branch (holder.rs:42-63) with what protect
\* (holder.rs:97-99) or try_protect (holder.rs:127) do with it.  On a
\* mismatch the holder goes on to the reset of holder.rs:39 with ptr2 in
\* hand; the slot still holds the candidate until then.  Each call runs in
\* a build with or without debug assertions.  For a non-null pointer from a
\* cell that saved no domain, the build with debug assertions reads the
\* object's domain (holder.rs:54-60): on a freed object that read can kill
\* the process; the build without them reads nothing.
ProtectValidate(h) ==
    /\ ~crashed
    /\ holder[h].st = "live" /\ holder[h].pc = "stored"
    /\ \E debug \in BOOLEAN,
          d \in IF /\ holder[h].ptr # Null
                   /\ holder[h].ptr = cellPtr[holder[h].src]
                   /\ domain_id(holder[h].src) = NoId
                THEN DomainRead(holder[h].ptr) ELSE {holder[h].dom} :
         LET hr == holder[h]
             ptr2 == cellPtr[hr.src]
             r == ProtectResult(hr.ptr, ptr2, domain_id(hr.src) = NoId,
                                d = hr.dom, debug)
         IN IF debug /\ d = "fault"
            THEN crashed' = TRUE /\ holder' = holder
            ELSE /\ crashed' = crashed
                 /\ IF r.kind = "Err"
                    THEN holder' = [holder EXCEPT ![h].ptr2 = ptr2, ![h].pc = "failed"]
                    ELSE holder' = [holder EXCEPT ![h].ret = r, ![h].ptr = Null,
                                       ![h].mode = "protect",
                                       ![h].pc = IF r.kind = "panic" THEN "panicked"
                                                                     ELSE "idle"]
    /\ UNCHANGED <<domAlive, slots, retired, nAlloc, objDom, deleted, cellPtr,
                   writer, scan, retireCalls, freedSum,
                   ids, delLog, rawObj,
                   nMade, retireSum, reported>>

\* ProtectFail whose protect loop keeps its old candidate after an Err
\* (holder.rs:101 ptr = ptr2 missing).
ProtectFail_RetrySame(h) ==
    /\ holder[h].st = "live" /\ holder[h].pc = "failed"
    /\ LET hr == holder[h]
       IN /\ slots' = [slots EXCEPT ![hr.dom] =
                          SlotAfterValidate(slots[hr.dom], hr.slot, hr.ptr, hr.ptr2)]
          /\ IF hr.mode = "protect"
             THEN holder' = [holder EXCEPT ![h].ptr2 = Null, ![h].pc = "loaded"]
             ELSE holder' = [holder EXCEPT ![h].ret = [kind |-> "Err", val |-> hr.ptr2],
                                ![h].ptr = Null, ![h].ptr2 = Null,
                                ![h].mode = "protect", ![h].pc = "idle"]
    /\ UNCHANGED <<domAlive, retired, nAlloc, objDom, deleted, cellPtr,
                   writer, scan, retireCalls, freedSum,
                   ids, delLog, rawObj, crashed,
                   nMade, retireSum, reported>>

\* try_protect_actual, the mismatch branch (holder.rs:39-40): reset the slot
\* and hand back Err(ptr2); protect takes ptr2 as its next candidate
\* (holder.rs:100-102), try_protect returns the Err (holder.rs:127).
ProtectFail(h) ==
    /\ ~crashed
    /\ holder[h].st = "live" /\ holder[h].pc = "failed"
    /\ LET hr == holder[h]
       IN /\ slots' = [slots EXCEPT ![hr.dom] =
                          SlotAfterValidate(slots[hr.dom], hr.slot, hr.ptr, hr.ptr2)]
          /\ IF hr.mode = "protect"
             THEN holder' = [holder EXCEPT ![h].ptr = hr.ptr2, ![h].ptr2 = Null,
                                ![h].pc = "loaded"]
             ELSE holder' = [holder EXCEPT ![h].ret = [kind |-> "Err", val |-> hr.ptr2],
                                ![h].ptr = Null, ![h].ptr2 = Null,
                                ![h].mode = "protect", ![h].pc = "idle"]
    /\ UNCHANGED <<domAlive, retired, nAlloc, objDom, deleted, cellPtr,
                   writer, scan, retireCalls, freedSum,
                   ids, delLog, rawObj, crashed,
                   nMade, retireSum, reported>>

\* Reset that also hands the slot back, as drop does.
Reset_Release(h) ==
    /\ Idle(h)
    /\ slots' = [slots EXCEPT ![holder[h].dom] =
                    Domain_release(HazPtr_reset(slots[holder[h].dom], holder[h].slot),
                                   holder[h].slot)]
    /\ holder' = [holder EXCEPT ![h].ret =
                    [kind |-> "reset",
                     val |-> IF holder[h].ret.kind = "reset" THEN 2 ELSE 1]]
    /\ UNCHANGED <<domAlive, retired, nAlloc, objDom, deleted, cellPtr,
                   writer, scan, retireCalls, freedSum,
                   ids, delLog, rawObj, crashed,
                   nMade, retireSum, reported>>

\* HazPtrHolder::reset (holder.rs:130-132).  ret.val tells a first reset (1)
\* from a reset that directly follows a reset of the same holder (2).
Reset(h) ==
    /\ Idle(h)
    /\ slots' = [slots EXCEPT ![holder[h].dom] =
                    HazPtr_reset(slots[holder[h].dom], holder[h].slot)]
    /\ holder' = [holder EXCEPT ![h].ret =
                    [kind |-> "reset",
                     val |-> IF holder[h].ret.kind = "reset" THEN 2 ELSE 1]]
    /\ UNCHANGED <<domAlive, retired, nAlloc, objDom, deleted, cellPtr,
                   writer, scan, retireCalls, freedSum,
                   ids, delLog, rawObj, crashed,
                   nMade, retireSum, reported>>

\* DropReset without the reset: the slot goes back to the pool as it is.
DropReset_NoReset(h) ==
    /\ holder[h].st = "live" /\ holder[h].pc \in {"idle", "panicked"}
    /\ holder' = [holder EXCEPT ![h].st = "dropping", ![h].pc = "idle",
                                ![h].ret = NoRet]
    /\ UNCHANGED <<domAlive, slots, retired, nAlloc, objDom, deleted, cellPtr,
                   writer, scan, retireCalls, freedSum,
                   ids, delLog, rawObj, crashed,
                   nMade, retireSum, reported>>

\* Drop that releases the slot as its first statement instead of resetting it.
DropReset_ReleaseFirst(h) ==
    /\ holder[h].st = "live" /\ holder[h].pc \in {"idle", "panicked"}
    /\ slots' = [slots EXCEPT ![holder[h].dom] =
                    Domain_release(slots[holder[h].dom], holder[h].slot)]
    /\ holder' = [holder EXCEPT ![h].st = "dropping", ![h].pc = "idle",
                                ![h].ret = NoRet]
    /\ UNCHANGED <<domAlive, retired, nAlloc, objDom, deleted, cellPtr,
                   writer, scan, retireCalls, freedSum,
                   ids, delLog, rawObj, crashed,
                   nMade, retireSum, reported>>

\* Drop for HazPtrHolder, first statement (holder.rs:137); a holder whose
\* protect panicked is dropped by unwinding.
DropReset(h) ==
    /\ holder[h].st = "live" /\ holder[h].pc \in {"idle", "panicked"}
    /\ slots' = [slots EXCEPT ![holder[h].dom] =
                    HazPtr_reset(slots[holder[h].dom], holder[h].slot)]
    /\ holder' = [holder EXCEPT ![h].st = "dropping", ![h].pc = "idle",
                                ![h].ret = NoRet]
    /\ UNCHANGED <<domAlive, retired, nAlloc, objDom, deleted, cellPtr,
                   writer, scan, retireCalls, freedSum,
                   ids, delLog, rawObj, crashed,
                   nMade, retireSum, reported>>

\* DropRelease that unlinks the slot from the list.
DropRelease_Unlink(h) ==
    /\ holder[h].st = "dropping"
    /\ slots' = [slots EXCEPT ![holder[h].dom] =
                    SubSeq(@, 1, holder[h].slot - 1) \o SubSeq(@, holder[h].slot + 1, Len(@))]
    /\ holder' = [holder EXCEPT ![h] = NoHolder]
    /\ UNCHANGED <<domAlive, retired, nAlloc, objDom, deleted, cellPtr,
                   writer, scan, retireCalls, freedSum,
                   ids, delLog, rawObj, crashed,
                   nMade, retireSum, reported>>

\* Drop for HazPtrHolder, second statement (holder.rs:138)
DropRelease(h) ==
    /\ ~crashed
    /\ holder[h].st = "dropping"
    /\ slots' = [slots EXCEPT ![holder[h].dom] =
                    Domain_release(slots[holder[h].dom], holder[h].slot)]
    /\ holder' = [holder EXCEPT ![h] = NoHolder]
    /\ UNCHANGED <<domAlive, retired, nAlloc, objDom, deleted, cellPtr,
                   writer, scan, retireCalls, freedSum,
                   ids, delLog, rawObj, crashed,
                   nMade, retireSum, reported>>

\* std::mem::forget(holder): the holder goes away without its Drop
\* (holder.rs:135-140) being run, so its slot stays active with what it
\* protects, and the borrows of the holder and of the domain end.
Forget(h) ==
    /\ Idle(h)
    /\ holder' = [holder EXCEPT ![h] =
                    [NoHolder EXCEPT !.st = "forgotten", !.dom = holder[h].dom,
                                     !.slot = holder[h].slot]]
    /\ UNCHANGED <<domAlive, slots, retired, nAlloc, objDom, deleted, cellPtr,
                   writer, scan, retireCalls, freedSum,
                   ids, delLog, rawObj, crashed,
                   nMade, retireSum, reported>>

\* ---------------------------------------------------------------- retire
\* Domain::retire: append a retire record.  (A scan is triggered only when
\* the pending count reaches the threshold, which is far above MaxObj.)
Domain_retire(rl, p, del) == Append(rl, [ptr |-> p, deleter |-> del])

\* HazPtrObject_retire handing the pointer to the domain twice.
HazPtrObject_retire_Twice(p, del) ==
    /\ domAlive[objDom[p]]
    /\ retired' = [retired EXCEPT ![objDom[p]] =
                     Domain_retire(Domain_retire(retired[objDom[p]], p, del), p, del)]
    /\ retireCalls' = [retireCalls EXCEPT ![p] = @ + 1]
    /\ delLog' = [delLog EXCEPT ![p].supplied = @ \cup {<<objDom[p], del>>}]
    /\ retireSum' = [retireSum EXCEPT ![objDom[p]] = @ + 1]
    /\ crashed' = crashed

\* HazPtrObject_retire that hands the domain drop_box whatever deleter it
\* was given.
HazPtrObject_retire_FixedDeleter(p, del) ==
    /\ domAlive[objDom[p]]
    /\ retired' = [retired EXCEPT ![objDom[p]] =
                     Domain_retire(retired[objDom[p]], p, "drop_box")]
    /\ retireCalls' = [retireCalls EXCEPT ![p] = @ + 1]
    /\ delLog' = [delLog EXCEPT ![p].supplied = @ \cup {<<objDom[p], del>>}]
    /\ retireSum' = [retireSum EXCEPT ![objDom[p]] = @ + 1]
    /\ crashed' = crashed

\* HazPtrObject::retire (object.rs:23-28): read the object's domain and hand
\* the pointer and the deleter to it.  When the read yields no reference to a
\* domain the call through it kills the process and nothing is appended.
HazPtrObject_retire(p, del) ==
    /\ ~crashed
    /\ \E d \in DomainRead(p) :
          IF d = "fault"
          THEN /\ crashed' = TRUE
               /\ UNCHANGED <<retired, retireCalls, delLog, retireSum>>
          ELSE /\ domAlive[d]
               /\ retired' = [retired EXCEPT ![d] = Domain_retire(retired[d], p, del)]
               /\ retireCalls' = [retireCalls EXCEPT ![p] = @ + 1]
               /\ delLog' = [delLog EXCEPT ![p].supplied = @ \cup {<<d, del>>}]
               /\ retireSum' = [retireSum EXCEPT ![d] = @ + 1]
               /\ crashed' = crashed

\* ---------------------------------------------------------------- writers
NoRef == [ref |-> "none", ptr |-> Null]
\* a writer whose swap assertion failed: the thread unwinds, its ref is gone
Panicked == [ref |-> "panicked", ptr |-> Null]

\* AtomicBox::deleter (object.rs:139-141)
AtomicBox_deleter == "drop_box"

\* The addresses the allocator can hand out (Box::new at object.rs:146,
\* Box::new and Arc::new at tests/lib.rs:120-131): one never handed out
\* before, or the address of an object whose deleter has run, whoever still
\* holds that address as a stale pointer.
FreeAddrs == {a \in 1..(nAlloc + 1) : a > nAlloc \/ deleted[a] > 0}

\* A new object of domain d is placed at address a.
Allocate(a, d, raw) ==
    /\ nMade < MaxObj
    /\ a \in FreeAddrs
    /\ nMade' = nMade + 1
    /\ nAlloc' = IF a > nAlloc THEN a ELSE nAlloc
    /\ objDom' = [objDom EXCEPT ![a] = d]
    /\ deleted' = [deleted EXCEPT ![a] = 0]
    /\ retireCalls' = [retireCalls EXCEPT ![a] = 0]
    /\ rawObj' = IF raw THEN rawObj \cup {a} ELSE rawObj \ {a}

\* AtomicBox::create (object.rs:143-150) on a fresh HazPtrObjectWrapper
\* (object.rs:182-184): the object is boxed and the ref holds its address.
Create(w, d) ==
    /\ writer[w].ref = "none"
    /\ domAlive[d]
    /\ \E a \in FreeAddrs :
          /\ Allocate(a, d, FALSE)
          /\ writer' = [writer EXCEPT ![w] = [ref |-> "owned", ptr |-> a]]
    /\ UNCHANGED <<domAlive, slots, retired, cellPtr, holder, scan, freedSum,
                   ids, delLog, crashed, retireSum, reported>>

\* A raw pointer to a new object, Box::into_raw / Arc::into_raw
\* (tests/lib.rs:120-131).
CreateRaw(w, d) ==
    /\ writer[w].ref = "none"
    /\ domAlive[d]
    /\ \E a \in FreeAddrs :
          /\ Allocate(a, d, TRUE)
          /\ writer' = [writer EXCEPT ![w] = [ref |-> "raw", ptr |-> a]]
    /\ UNCHANGED <<domAlive, slots, retired, cellPtr, holder, scan, freedSum,
                   ids, delLog, crashed, retireSum, reported>>

\* The assertion of swap left out.
SwapAllowed_Always(cellId, otherId) == TRUE

\* The assertion of swap (object.rs:70-74): both refs carry the same domain id.
SwapAllowed(cellId, otherId) == cellId = otherId

\* Swap that does not write the displaced pointer back into the other ref
\* (object.rs:78 missing).
Swap_NoWriteBack(w) ==
    /\ writer[w].ref = "owned"
    /\ domAlive["W"]
    /\ IF SwapAllowed(domain_id("x"), DomainId(objDom[writer[w].ptr]))
       THEN /\ cellPtr' = [cellPtr EXCEPT !["x"] = writer[w].ptr]
            /\ writer' = writer
       ELSE /\ writer' = [writer EXCEPT ![w].ref = "panicked"]
            /\ UNCHANGED cellPtr
    /\ UNCHANGED <<domAlive, slots, retired, nAlloc, objDom, deleted, holder,
                   scan, retireCalls, freedSum,
                   ids, delLog, rawObj, crashed,
                   nMade, retireSum, reported>>

\* HazPtrObjectRefExt::swap (object.rs:65-80) of the writer's ref into x:
\* the assertion, the atomic exchange and the write of the displaced pointer
\* into the exclusively borrowed other ref.  When the assertion fails the
\* thread unwinds with both refs as they were.
Swap(w) ==
    /\ writer[w].ref = "owned"
    /\ domAlive["W"]
    /\ IF SwapAllowed(domain_id("x"), DomainId(objDom[writer[w].ptr]))
       THEN /\ cellPtr' = [cellPtr EXCEPT !["x"] = writer[w].ptr]
            /\ writer' = [writer EXCEPT ![w].ptr = cellPtr["x"]]
       ELSE /\ writer' = [writer EXCEPT ![w].ref = "panicked"]
            /\ UNCHANGED cellPtr
    /\ UNCHANGED <<domAlive, slots, retired, nAlloc, objDom, deleted, holder,
                   scan, retireCalls, freedSum,
                   ids, delLog, rawObj, crashed,
                   nMade, retireSum, reported>>

\* Replace whose swap does not write the old pointer back (object.rs:78
\* missing): the returned ref still holds the pointer now installed in x.
Replace_KeepsNew(w, d) ==
    /\ writer[w].ref = "none"
    /\ domAlive[d] /\ domAlive["W"]
    /\ \E a \in FreeAddrs :
          /\ Allocate(a, d, FALSE)
          /\ IF SwapAllowed(domain_id("x"), DomainId(d))
             THEN /\ cellPtr' = [cellPtr EXCEPT !["x"] = a]
                  /\ writer' = [writer EXCEPT ![w] = [ref |-> "owned", ptr |-> a]]
             ELSE /\ writer' = [writer EXCEPT ![w] = Panicked]
                  /\ UNCHANGED cellPtr
    /\ UNCHANGED <<domAlive, slots, retired, holder, scan, freedSum,
                   ids, delLog, crashed, retireSum, reported>>

\* HazPtrObjectRefExt::replace (object.rs:82-89): create the new ref
\* (object.rs:86, 143-150), swap it into x, return the displaced ref.  The
\* new object is private until the exchange, so the allocation is taken in
\* the step of the exchange.  When the assertion of swap fails the thread
\* unwinds and the ref just created is dropped with it: its object stays
\* allocated and no ref holds it.
Replace(w, d) ==
    /\ writer[w].ref = "none"
    /\ domAlive[d] /\ domAlive["W"]
    /\ \E a \in FreeAddrs :
          /\ Allocate(a, d, FALSE)
          /\ IF SwapAllowed(domain_id("x"), DomainId(d))
             THEN /\ cellPtr' = [cellPtr EXCEPT !["x"] = a]
                  /\ writer' = [writer EXCEPT ![w] = [ref |-> "owned", ptr |-> cellPtr["x"]]]
             ELSE /\ writer' = [writer EXCEPT ![w] = Panicked]
                  /\ UNCHANGED cellPtr
    /\ UNCHANGED <<domAlive, slots, retired, holder, scan, freedSum,
                   ids, delLog, crashed, retireSum, reported>>

\* AtomicPtr::swap on the bare cell p (tests/lib.rs:133); the writer's raw
\* pointer may be null.
BareSwap(w) ==
    /\ writer[w].ref \in {"none", "raw"}
    /\ writer[w].ptr # cellPtr["p"]
    /\ cellPtr' = [cellPtr EXCEPT !["p"] = writer[w].ptr]
    /\ writer' = [writer EXCEPT ![w] =
                    IF cellPtr["p"] = Null THEN NoRef
                    ELSE [ref |-> "raw", ptr |-> cellPtr["p"]]]
    /\ UNCHANGED <<domAlive, slots, retired, nAlloc, objDom, deleted, holder,
                   scan, retireCalls, freedSum,
                   ids, delLog, rawObj, crashed,
                   nMade, retireSum, reported>>

\* HazPtrObjectRefExt::retire (object.rs:92-106): consume the ref.
RetireRef(w) ==
    /\ writer[w].ref = "owned"
    /\ HazPtrObject_retire(writer[w].ptr, AtomicBox_deleter)
    /\ writer' = [writer EXCEPT ![w] = NoRef]
    /\ UNCHANGED <<domAlive, slots, nAlloc, objDom, deleted, cellPtr, holder,
                   scan, freedSum,
                   ids, rawObj, nMade, reported>>

\* retire calls handed to any domain so far
RetireTotal == retireSum["W"] + retireSum["R"]

\* ptr.retire(&deleter) on a raw pointer (tests/lib.rs:150, 162).  The call
\* is unsafe and checks nothing: any raw pointer can be retired, also one
\* that a cell still holds (tests/lib.rs:162) or that was retired before.
\* A writer that retires the pointer it has in hand lets go of it.  At most
\* MaxRetire such calls are explored.
RetireRaw(w, p, del) ==
    /\ p \in rawObj
    /\ RetireTotal < MaxRetire
    /\ HazPtrObject_retire(p, del)
    /\ writer' = [writer EXCEPT ![w] =
                    IF writer[w] = [ref |-> "raw", ptr |-> p] THEN NoRef ELSE @]
    /\ UNCHANGED <<domAlive, slots, nAlloc, objDom, deleted, cellPtr, holder,
                   scan, freedSum,
                   ids, rawObj, nMade, reported>>

\* ------------------------------------------------------------------- scan
NoScan == [pc |-> "idle", dom |-> "W", L |-> <<>>, H |-> {}, idx |-> 0, ret |-> -1]

RECURSIVE SeqFilterKeep(_, _)
\* the records of L whose pointer is in H (still hazardous), in order
SeqFilterKeep(L, H) ==
    IF L = <<>> THEN <<>>
    ELSE IF Head(L).ptr \in H THEN <<Head(L)>> \o SeqFilterKeep(Tail(L), H)
    ELSE SeqFilterKeep(Tail(L), H)

\* FreedCount that counts the hazards found instead of the records freed.
FreedCount_Hazards(L, H) == Cardinality(H)

\* number of records of L with pointer o and not in H (deleter invocations)
FreedOf(L, H, o) == Cardinality({i \in 1..Len(L) : L[i].ptr = o /\ L[i].ptr \notin H})
FreedCount(L, H) == Cardinality({i \in 1..Len(L) : L[i].ptr \notin H})
\* the deleters that domain d runs on object o when it frees the records of
\* L not in H: each record's own deleter, applied to the record's pointer
Invocations(d, L, H, o) ==
    {<<d, L[i].deleter>> : i \in {j \in 1..Len(L) : L[j].ptr = o /\ L[j].ptr \notin H}}

\* eager_reclaim step 1: detach the retire list.
ScanBegin(s, d) ==
    /\ scan[s].pc = "idle"
    /\ domAlive[d]
    /\ scan' = [scan EXCEPT ![s] = [pc |-> "walk", dom |-> d, L |-> retired[d],
                                     H |-> {}, idx |-> 1, ret |-> -1]]
    /\ retired' = [retired EXCEPT ![d] = <<>>]
    /\ UNCHANGED <<domAlive, slots, nAlloc, objDom, deleted, cellPtr, holder,
                   writer, retireCalls, freedSum,
                   ids, delLog, rawObj, crashed,
                   nMade, retireSum, reported>>

\* eager_reclaim step 3: read the next hazard slot.
ScanWalk(s) ==
    /\ ~crashed
    /\ scan[s].pc = "walk"
    /\ scan[s].idx <= Len(slots[scan[s].dom])
    /\ scan' = [scan EXCEPT ![s].H = @ \cup ({slots[scan[s].dom][scan[s].idx].protected} \ {Null}),
                            ![s].idx = @ + 1]
    /\ UNCHANGED <<domAlive, slots, retired, nAlloc, objDom, deleted, cellPtr,
                   holder, writer, retireCalls, freedSum,
                   ids, delLog, rawObj, crashed,
                   nMade, retireSum, reported>>

\* eager_reclaim steps 4-6: delete the freeable records, give the others back.
ScanReclaim(s) ==
    /\ ~crashed
    /\ scan[s].pc = "walk"
    /\ scan[s].idx > Len(slots[scan[s].dom])
    /\ LET d == scan[s].dom
           L == scan[s].L
           H == scan[s].H
       IN /\ deleted' = [o \in Obj |-> deleted[o] + FreedOf(L, H, o)]
          /\ retired' = [retired EXCEPT ![d] = @ \o SeqFilterKeep(L, H)]
          /\ freedSum' = [freedSum EXCEPT ![d] = @ + FreedCount(L, H)]
          /\ delLog' = [o \in Obj |->
                          [delLog[o] EXCEPT !.invoked = @ \cup Invocations(d, L, H, o)]]
          /\ scan' = [scan EXCEPT ![s] = [NoScan EXCEPT !.dom = d, !.ret = FreedCount(L, H)]]
    /\ UNCHANGED <<domAlive, slots, nAlloc, objDom, cellPtr, holder, writer,
                   retireCalls,
                   ids, rawObj, crashed,
                   nMade, retireSum, reported>>

\* ------------------------------------------------------------ domain drop
\* Nothing borrows the domain any more: no holder (a holder borrows the
\* domain until it is dropped or forgotten), no running scan, no unretired
\* object of the domain in a writer's hands.
Unborrowed(d) ==
    /\ \A h \in Holders : holder[h].st \in {"none", "forgotten"} \/ holder[h].dom # d
    /\ \A s \in Scanners : scan[s].pc = "idle" \/ scan[s].dom # d
    /\ \A w \in Writers :
          IF writer[w].ptr = Null THEN TRUE ELSE objDom[writer[w].ptr] # d

\* A drop that leaves alone the records whose pointer a slot holds.
DomainDrop_KeepHazards(d) ==
    /\ ~crashed
    /\ domAlive[d]
    /\ Unborrowed(d)
    /\ LET H == {slots[d][i].protected : i \in 1..Len(slots[d])} \ {Null}
       IN /\ deleted' = [o \in Obj |-> deleted[o] + FreedOf(retired[d], H, o)]
          /\ freedSum' = [freedSum EXCEPT ![d] = @ + FreedCount(retired[d], H)]
          /\ delLog' = [o \in Obj |->
                          [delLog[o] EXCEPT !.invoked = @ \cup Invocations(d, retired[d], H, o)]]
          /\ retired' = [retired EXCEPT ![d] = SeqFilterKeep(retired[d], H)]
    /\ domAlive' = [domAlive EXCEPT ![d] = FALSE]
    /\ reported' = IF \E i \in 1..Len(slots[d]) : slots[d][i].active
                   THEN reported \cup {d} ELSE reported
    /\ UNCHANGED <<slots, nAlloc, objDom, cellPtr, holder, writer, scan,
                   retireCalls,
                   ids, rawObj, crashed,
                   nMade, retireSum>>

\* Drop of the domain: every pending record is deleted, whatever the slots
\* hold; a slot that is still active (its holder was forgotten, not
\* dropped) is reported.
DomainDrop(d) ==
    /\ ~crashed
    /\ domAlive[d]
    /\ Unborrowed(d)
    /\ domAlive' = [domAlive EXCEPT ![d] = FALSE]
    /\ deleted' = [o \in Obj |-> deleted[o] + FreedOf(retired[d], {}, o)]
    /\ freedSum' = [freedSum EXCEPT ![d] = @ + Len(retired[d])]
    /\ delLog' = [o \in Obj |->
                    [delLog[o] EXCEPT !.invoked = @ \cup Invocations(d, retired[d], {}, o)]]
    /\ retired' = [retired EXCEPT ![d] = <<>>]
    /\ reported' = IF \E i \in 1..Len(slots[d]) : slots[d][i].active
                   THEN reported \cup {d} ELSE reported
    /\ UNCHANGED <<slots, nAlloc, objDom, cellPtr, holder, writer, scan,
                   retireCalls,
                   ids, rawObj, crashed,
                   nMade, retireSum>>

\* ---------------------------------------------------------- specification
Init ==
    /\ domAlive = [d \in Domains |-> TRUE]
    /\ slots = [d \in Domains |-> <<>>]
    /\ retired = [d \in Domains |-> <<>>]
    /\ nAlloc = 1
    /\ objDom = [o \in Obj |-> "W"]
    /\ deleted = [o \in Obj |-> 0]
    /\ cellPtr = [c \in Cells |-> IF c = "x" THEN 1 ELSE Null]
    /\ holder = [h \in Holders |-> NoHolder]
    /\ writer = [w \in Writers |-> NoRef]
    /\ ids = [next |-> 3,
              of |-> [d \in Domains |-> IF d = "W" THEN NewDomainId(1, "unit")
                                                    ELSE NewDomainId(2, "unit")],
              pend |-> [t \in Makers |-> NoMake],
              made |-> <<>>]
    /\ delLog = [o \in Obj |-> [supplied |-> {}, invoked |-> {}]]
    /\ rawObj = {}
    /\ crashed = FALSE
    /\ nMade = 1
    /\ retireSum = [d \in Domains |-> 0]
    /\ reported = {}
    /\ scan = [s \in Scanners |-> NoScan]
    /\ retireCalls = [o \in Obj |-> 0]
    /\ freedSum = [d \in Domains |-> 0]

\* Readers, one writer and one reclaimer on domain W and its cell x.  The
\* holders are numbered in the order they are made: holder 2 is made while
\* holder 1 exists.
Next ==
    \/ \E h \in Holders :
          /\ \A g \in Holders : g < h => holder[g].st # "none"
          /\ ForDomain(h, "W")
    \/ \E h \in Holders : ProtectLoad(h, "x")
    \/ \E h \in Holders : ProtectStore(h)
    \/ \E h \in Holders, p \in 0..nAlloc : TryProtect(h, "x", p)
    \/ \E h \in Holders : ProtectValidate(h)
    \/ \E h \in Holders : ProtectFail(h)
    \/ \E h \in Holders : Reset(h)
    \/ \E h \in Holders : DropReset(h)
    \/ \E h \in Holders : DropRelease(h)
    \/ Replace(1, "W")
    \/ RetireRef(1)
    \/ ScanBegin(1, "W")
    \/ ScanWalk(1)
    \/ ScanReclaim(1)
    \/ DomainDrop("W")

Spec == Init /\ [][Next]_vars

\* The same operations called from one thread, as the tests do: an operation
\* starts only when no other is in progress.
Quiet ==
    /\ ~crashed
    /\ \A h \in Holders : holder[h].st # "dropping" /\ holder[h].pc \in {"idle", "panicked"}
    /\ \A s \in Scanners : scan[s].pc = "idle"

SeqNext ==
    \/ Quiet /\ \E h \in Holders : ForDomain(h, "W")
    \/ Quiet /\ \E h \in Holders : ProtectLoad(h, "x")
    \/ \E h \in Holders : ProtectStore(h)
    \/ Quiet /\ \E h \in Holders, p \in 0..nAlloc : TryProtect(h, "x", p)
    \/ \E h \in Holders : ProtectValidate(h)
    \/ \E h \in Holders : ProtectFail(h)
    \/ Quiet /\ \E h \in Holders : Reset(h)
    \/ Quiet /\ \E h \in Holders : DropReset(h)
    \/ \E h \in Holders : DropRelease(h)
    \/ Quiet /\ Replace(1, "W")
    \/ Quiet /\ RetireRef(1)
    \/ Quiet /\ ScanBegin(1, "W")
    \/ ScanWalk(1)
    \/ ScanReclaim(1)
    \/ Quiet /\ DomainDrop("W")

SpecSeq == Init /\ [][SeqNext]_vars

\* Readers and one writer on domain W and its cell x, with no scan: holders
\* are dropped or forgotten, and the domain is dropped once nothing borrows
\* it.
DropNext ==
    \/ \E h \in Holders : ForDomain(h, "W")
    \/ \E h \in Holders : ProtectLoad(h, "x")
    \/ \E h \in Holders : ProtectStore(h)
    \/ \E h \in Holders : ProtectValidate(h)
    \/ \E h \in Holders : ProtectFail(h)
    \/ \E h \in Holders : Forget(h)
    \/ \E h \in Holders : DropReset(h)
    \/ \E h \in Holders : DropRelease(h)
    \/ Replace(1, "W")
    \/ RetireRef(1)
    \/ DomainDrop("W")

SpecDrop == Init /\ [][DropNext]_vars

\* One reader, two writers and two concurrent reclaimers on domain W; the
\* second writer also retires objects it made and never installed.
ReclaimNext ==
    \/ ForDomain(1, "W")
    \/ ProtectLoad(1, "x")
    \/ ProtectStore(1)
    \/ ProtectValidate(1)
    \/ ProtectFail(1)
    \/ DropReset(1)
    \/ DropRelease(1)
    \/ Create(2, "W")
    \/ \E w \in Writers : Replace(w, "W")
    \/ \E w \in Writers : RetireRef(w)
    \/ \E s \in Scanners : ScanBegin(s, "W")
    \/ \E s \in Scanners : ScanWalk(s)
    \/ \E s \in Scanners : ScanReclaim(s)
    \/ DomainDrop("W")

SpecReclaim == Init /\ [][ReclaimNext]_vars

\* The same threads, the reader scheduled fairly: once it is inside protect
\* its next step, the store into the slot, the validating reload or the reset
\* after a mismatch, is always enabled, and a reader thread that keeps running takes it.
SpecLive ==
    /\ Init /\ [][ReclaimNext]_vars
    /\ WF_vars(ProtectStore(1))
    /\ WF_vars(ProtectValidate(1))
    /\ WF_vars(ProtectFail(1))

\* One reader against the whole interface: both domains, the owned cell x
\* and the bare cell p, whose raw objects are installed and displaced but
\* not retired.
ApiNext ==
    \/ \E d \in Domains : ForDomain(1, d)
    \/ \E c \in Cells : ProtectLoad(1, c)
    \/ ProtectStore(1)
    \/ \E c \in Cells, p \in 0..nAlloc : TryProtect(1, c, p)
    \/ ProtectValidate(1)
    \/ ProtectFail(1)
    \/ Reset(1)
    \/ DropReset(1)
    \/ DropRelease(1)
    \/ \E d \in Domains : CreateRaw(1, d)
    \/ BareSwap(1)
    \/ \E d \in Domains : Replace(1, d)
    \/ RetireRef(1)
    \/ ScanBegin(1, "W")
    \/ ScanWalk(1)
    \/ ScanReclaim(1)

SpecApi == Init /\ [][ApiNext]_vars

\* One reader that only calls protect, on every cell and from either domain,
\* next to a writer and a reclaimer.
ProtectNext ==
    \/ \E d \in Domains : ForDomain(1, d)
    \/ \E c \in Cells : ProtectLoad(1, c)
    \/ ProtectStore(1)
    \/ ProtectValidate(1)
    \/ ProtectFail(1)
    \/ DropReset(1)
    \/ DropRelease(1)
    \/ \E d \in Domains : CreateRaw(1, d)
    \/ BareSwap(1)
    \/ Replace(1, "W")
    \/ RetireRef(1)
    \/ ScanBegin(1, "W")
    \/ ScanWalk(1)
    \/ ScanReclaim(1)

SpecProtect == Init /\ [][ProtectNext]_vars

\* Two readers and one writer on the bare cell p of domain W, as in
\* tests/lib.rs atomic_ptr_as_object_ref: raw objects are installed with
\* AtomicPtr::swap and retired with either deleter, the operations called
\* one after another from the test's thread.  The holders are made in the
\* test's order (hx, then hy); a scan is run, as in the test, on a domain
\* that has records pending, which can be either one, since a retire of a
\* freed object may hand its record to any domain; W is dropped at the end.
PtrNext ==
    \/ Quiet /\ \E h \in Holders :
                   /\ \A g \in Holders : g < h => holder[g].st # "none"
                   /\ ForDomain(h, "W")
    \/ Quiet /\ \E h \in Holders : ProtectLoad(h, "p")
    \/ \E h \in Holders : ProtectStore(h)
    \/ \E h \in Holders : ProtectValidate(h)
    \/ Quiet /\ \E h \in Holders : DropReset(h)
    \/ \E h \in Holders : DropRelease(h)
    \/ Quiet /\ CreateRaw(1, "W")
    \/ Quiet /\ BareSwap(1)
    \/ Quiet /\ \E p \in {writer[1].ptr, cellPtr["p"]}, del \in Deleters :
                   RetireRaw(1, p, del)
    \/ Quiet /\ \E d \in Domains : retired[d] # <<>> /\ ScanBegin(1, d)
    \/ ScanWalk(1)
    \/ ScanReclaim(1)
    \/ Quiet /\ DomainDrop("W")

SpecPtr == Init /\ [][PtrNext]_vars

\* ------------------------------------------------------------ properties
\* holder h holds a borrow of object o: its last protect/try_protect returned
\* Some(o) and it has not been reset, dropped or used for a new protect since.
Borrow(h, o) ==
    /\ holder[h].st = "live" /\ holder[h].pc = "idle"
    /\ holder[h].ret = [kind |-> "Some", val |-> o]

\* number of records for object o in a retire list
CountOf(L, o) == Cardinality({i \in 1..Len(L) : L[i].ptr = o})
\* records for o still awaiting reclamation: in its domain's list or in the
\* detached list of a running scan
Pending(o) ==
    CountOf(retired[objDom[o]], o)
    + (IF scan[1].pc = "walk" THEN CountOf(scan[1].L, o) ELSE 0)
    + (IF scan[2].pc = "walk" THEN CountOf(scan[2].L, o) ELSE 0)

NoScanRan == \A s \in Scanners : scan[s].pc = "idle" /\ scan[s].ret = -1

\* C1: while a holder holds a borrow of object O (its protect/try_protect
\* returned Some(O) and it has not reset, dropped or started a new protect),
\* no deleter has been invoked on O.
C1_BorrowedObjectAlive ==
    \A h \in Holders, o \in Obj : Borrow(h, o) => deleted[o] = 0

\* a holder still borrows object 1 after it was retired and a scan completed
C1_Witness ==
    \E h \in Holders :
        /\ Borrow(h, 1) /\ retireCalls[1] = 1
        /\ scan[1].pc = "idle" /\ scan[1].ret = 0
        /\ CountOf(retired["W"], 1) = 1

\* C2 as stated (invariant D1): a deleter is never invoked on an object while
\* any hazard slot of its domain holds the object's address, validated or not.
C2_NoSlotHoldsDeleted ==
    [][\A o \in Obj :
          deleted'[o] > deleted[o] =>
              \A i \in 1..Len(slots[objDom[o]]) :
                  slots[objDom[o]][i].protected # o]_vars

\* holder h owns slot i of domain d and is inside a protect/try_protect
\* attempt on candidate o: it has stored o (holder.rs:33) and its validating
\* reload (holder.rs:37) or the reset after a failed reload (holder.rs:39) is
\* still to come
CandidateOf(h, d, i, o) ==
    /\ holder[h].st = "live" /\ holder[h].dom = d /\ holder[h].slot = i
    /\ holder[h].pc \in {"stored", "failed"} /\ holder[h].ptr = o

\* C2 amended: when a scan invokes the deleter of an object, the scan has not
\* read the object's address in any slot, and every slot of the domain that
\* holds the address at that moment belongs to a holder that stored it as a
\* candidate and has not finished the attempt; no slot of a holder whose
\* protect/try_protect has returned holds it.
C2_OnlyUnfinishedCandidateHeld ==
    [][\A s \in Scanners, o \in Obj :
          (scan[s].pc = "walk" /\ scan'[s].pc = "idle" /\ deleted'[o] > deleted[o])
          => /\ o \notin scan[s].H
             /\ \A i \in 1..Len(slots[scan[s].dom]) :
                   slots[scan[s].dom][i].protected = o
                      => \E h \in Holders : CandidateOf(h, scan[s].dom, i, o)]_vars

\* a scan has freed a retired object whose address a reader had stored as
\* its candidate after the scan read the reader's slot; the reader has not
\* reloaded the cell yet
C2_Witness ==
    \E h \in Holders, o \in Obj :
        /\ CandidateOf(h, "W", holder[h].slot, o) /\ holder[h].pc = "stored"
        /\ slots["W"][holder[h].slot].protected = o
        /\ deleted[o] = 1 /\ cellPtr["x"] # o
        /\ scan[1].pc = "idle" /\ scan[1].ret = 1

\* the step in which scanner 1 finishes a scan
ScanDone == scan[1].pc = "walk" /\ scan'[1].pc = "idle"
Protectors(o) == {h \in Holders : Borrow(h, o)}

\* the live holders whose hazard slot holds the address of o: what a scan
\* reads
SlotHolders(o) ==
    {h \in Holders : /\ holder[h].st = "live"
                     /\ slots[holder[h].dom][holder[h].slot].protected = o}

\* C3: with the operations called one after another, the holders that have
\* a retired object protected when a scan ends are those whose slot holds its
\* address.  A scan over a retired object that a holder still has protected
\* leaves the object alive and its record pending (and returns 0 when that
\* record is the only one); a scan run once no holder protects it any more
\* (the holder was reset or dropped) invokes its deleter and removes the
\* record (and returns 1 when that record is the only one).  Holders
\* protecting other objects make no difference.
C3_ScanRespectsHolder ==
    [][ScanDone =>
         \A o \in Obj :
            CountOf(scan[1].L, o) = 1 =>
               /\ Protectors(o) = SlotHolders(o)
               /\ IF Protectors(o) # {}
                  THEN /\ deleted'[o] = deleted[o]
                       /\ CountOf(retired'["W"], o) = 1
                       /\ (Len(scan[1].L) = 1 => scan'[1].ret = 0)
                  ELSE /\ deleted'[o] = deleted[o] + 1
                       /\ CountOf(retired'["W"], o) = 0
                       /\ (Len(scan[1].L) = 1 => scan'[1].ret = 1)]_vars

\* object 1 was freed by a scan that returned 1 after its holder was dropped
\* (slot 1 is back in the pool) while another holder protects the replacement
C3_Witness ==
    /\ scan[1].pc = "idle" /\ scan[1].ret = 1 /\ deleted[1] = 1
    /\ Len(slots["W"]) = 2 /\ ~slots["W"][1].active
    /\ \E h \in Holders : Borrow(h, 2) /\ holder[h].slot = 2
    /\ cellPtr["x"] = 2 /\ deleted[2] = 0

\* records awaiting reclamation in domain d: in its retire list or in the
\* detached list of a running scan
PendingIn(d) ==
    Len(retired[d])
    + (IF scan[1].pc = "walk" /\ scan[1].dom = d THEN Len(scan[1].L) ELSE 0)
    + (IF scan[2].pc = "walk" /\ scan[2].dom = d THEN Len(scan[2].L) ELSE 0)

\* C4: no deleter is ever invoked twice on an object; every retired object is
\* either still pending or has been deleted once, so the freed counts of all
\* scans and the records still pending add up to the number of retire calls;
\* and once the domain has been dropped nothing is pending, every retired
\* object has been deleted exactly once and the freed counts of all scans and
\* of the drop add up to the number of retire calls.
C4_EveryRetireFreedOnce ==
    /\ \A o \in Obj : deleted[o] <= 1 /\ deleted[o] + Pending(o) = retireCalls[o]
    /\ freedSum["W"] + PendingIn("W") = retireSum["W"]
    /\ ~domAlive["W"] =>
          /\ \A o \in Obj : deleted[o] = retireCalls[o]
          /\ PendingIn("W") = 0
          /\ freedSum["W"] = retireSum["W"]

\* the domain was dropped after three objects were made at two addresses and
\* two of them retired: a scan freed the first, whose address was handed out
\* again, another scan returned 0, and the drop freed the second record
C4_Witness ==
    /\ ~domAlive["W"] /\ retireSum["W"] = 2 /\ freedSum["W"] = 2
    /\ nMade = 3 /\ nAlloc = 2
    /\ \E s, t \in Scanners : scan[s].ret = 1 /\ scan[t].ret = 0

\* C5: when the domain is dropped and no scan has ever run, every object that
\* was retired has had its deleter invoked exactly once, whatever the hazard
\* slots hold, the drop has freed as many records as retire was called, and
\* the retire list is empty.
C5_DropFreesAll ==
    (~domAlive["W"] /\ NoScanRan) =>
        /\ \A o \in Obj : deleted[o] = retireCalls[o] /\ deleted[o] <= 1
        /\ freedSum["W"] = retireSum["W"]
        /\ retired["W"] = <<>>

\* two objects were retired and the domain dropped with no scan, while the
\* slot of a forgotten holder was still active, which the drop reported, and
\* held the address of one of them
C5_Witness ==
    /\ ~domAlive["W"] /\ NoScanRan
    /\ retireSum["W"] = 2 /\ freedSum["W"] = 2 /\ "W" \in reported
    /\ \E h \in Holders, o \in Obj :
          /\ holder[h].st = "forgotten"
          /\ slots["W"][holder[h].slot] = [protected |-> o, active |-> TRUE]
          /\ retireCalls[o] = 1 /\ deleted[o] = 1

\* C6: protect and try_protect on a cell whose domain identity differs from
\* the holder's end in the assertion, and the holder's hazard slot (every
\* slot) is as it was before the call.
C6_CrossDomainAsserts ==
    [][\A h \in Holders, c \in Cells :
          (DomainMismatch(h, c)
             /\ (ProtectLoad(h, c) \/ \E p \in Ptr : TryProtect(h, c, p)))
          => /\ holder'[h].pc = "panicked"
             /\ holder'[h].ret.kind = "panic"
             /\ slots' = slots]_vars

\* a holder of domain R panicked on the null cell n, which carries the
\* identity of W, while its slot still protects an object of its own domain,
\* read earlier from the bare cell
C6_Witness ==
    \E h \in Holders, o \in Obj :
        /\ holder[h].st = "live" /\ holder[h].pc = "panicked" /\ holder[h].dom = "R"
        /\ holder[h].src = "n" /\ cellPtr["n"] = Null
        /\ o <= nAlloc /\ objDom[o] = "R" /\ deleted[o] = 0
        /\ slots["R"][holder[h].slot].protected = o

\* holder h takes the validating load of a try_protect
TryValidate(h) ==
    /\ holder[h].st = "live" /\ holder[h].pc = "stored" /\ holder[h].mode = "try"
    /\ holder'[h] # holder[h]

\* holder h returns from a try_protect whose validating load found another
\* pointer than the candidate
TryFail(h) ==
    /\ holder[h].st = "live" /\ holder[h].pc = "failed" /\ holder[h].mode = "try"
    /\ holder'[h] # holder[h]

\* C7: a try_protect whose candidate differs from what the validating load
\* finds keeps exactly the loaded value, returns Err with it, and on return
\* the holder's hazard slot is null; a candidate equal to what the load
\* finds is not refused, even when the address is that of another object
\* than the one the candidate was read from.
C7_StaleCandidateErr ==
    [][\A h \in Holders :
          /\ (TryValidate(h) /\ holder[h].ptr # cellPtr[holder[h].src])
             => /\ holder'[h].pc = "failed"
                /\ holder'[h].ptr2 = cellPtr[holder[h].src]
                /\ holder'[h].ret = NoRet
          /\ (TryValidate(h) /\ holder[h].ptr = cellPtr[holder[h].src])
             => /\ holder'[h].pc = "idle"
                /\ holder'[h].ret.kind \in {"Some", "None"}
                /\ holder'[h].ret.val = holder[h].ptr
          /\ TryFail(h)
             => /\ holder'[h].ret = [kind |-> "Err", val |-> holder[h].ptr2]
                /\ holder'[h].pc = "idle"
                /\ slots'[holder[h].dom][holder[h].slot].protected = Null]_vars

\* a try_protect was refused with the cell's current content, the address of
\* the third object, made at the address of a freed one
C7_Witness ==
    \E h \in Holders :
        /\ holder[h].st = "live" /\ holder[h].ret.kind = "Err"
        /\ holder[h].ret.val = cellPtr["x"] /\ cellPtr["x"] # Null
        /\ nMade = 3 /\ nAlloc = 2
        /\ slots[holder[h].dom][holder[h].slot].protected = Null

\* holder h takes a step inside protect(cell)
InProtect(h) ==
    /\ holder[h].st = "live" /\ holder'[h] # holder[h]
    /\ \/ holder[h].pc \in {"loaded", "stored", "failed"} /\ holder[h].mode = "protect"
       \/ holder[h].pc = "idle" /\ holder'[h].pc = "loaded"

\* C8: no step of protect invokes a deleter or changes a retire list or a
\* cell; and when the validating load of protect finds the cell null, protect
\* returns None if its candidate was null and otherwise goes round the loop
\* with the null it loaded as candidate: it neither fails nor returns an
\* object.
C8_ProtectNull ==
    [][\A h \in Holders :
          InProtect(h) =>
             /\ UNCHANGED <<deleted, retired, cellPtr>>
             /\ (holder[h].pc = "stored" /\ cellPtr[holder[h].src] = Null) =>
                   IF holder[h].ptr = Null
                   THEN /\ holder'[h].ret = [kind |-> "None", val |-> Null]
                        /\ holder'[h].pc = "idle"
                   ELSE /\ holder'[h].pc = "failed" /\ holder'[h].ptr2 = Null
                        /\ holder'[h].ret = NoRet
             /\ holder[h].pc = "failed" =>
                   /\ holder'[h].pc = "loaded" /\ holder'[h].ptr = holder[h].ptr2
                   /\ holder'[h].ret = NoRet]_vars

\* protect of a holder of W returned None on the null cell n, which carries
\* the identity of W, while a retire is pending
C8_Witness ==
    \E h \in Holders :
        /\ Idle(h) /\ holder[h].dom = "W"
        /\ holder[h].src = "n" /\ holder[h].ret = [kind |-> "None", val |-> Null]
        /\ cellPtr["n"] = Null
        /\ retired["W"] # <<>>

\* C9: reset leaves the holder live with its slot active and protecting
\* null; a reset that directly follows a reset of the same holder changes
\* nothing (but the note that it was the second).
C9_ResetIdempotent ==
    [][\A h \in Holders :
          (Idle(h) /\ holder'[h].ret.kind = "reset" /\ holder'[h] # holder[h])
          => /\ holder'[h] = [holder[h] EXCEPT !.ret = holder'[h].ret]
             /\ slots'[holder[h].dom][holder[h].slot] = [protected |-> Null, active |-> TRUE]
             /\ holder[h].ret.kind = "reset" =>
                   /\ slots' = slots
                   /\ UNCHANGED <<domAlive, retired, nAlloc, objDom, deleted,
                                  cellPtr, writer, scan, retireCalls, freedSum>>]_vars

\* a holder has been reset twice in a row
C9_Witness ==
    \E h \in Holders :
        /\ Idle(h) /\ holder[h].ret = [kind |-> "reset", val |-> 2]
        /\ slots[holder[h].dom][holder[h].slot] = [protected |-> Null, active |-> TRUE]

\* records of L whose object no holder protects
Unprotected(L) == {i \in 1..Len(L) : Protectors(L[i].ptr) = {}}

\* C10: a scan run over the retired, displaced object while no holder
\* protects it invokes that object's deleter (for the first and only time)
\* and removes its record; the scan returns the number of records by which
\* the pending count went down, which is exactly one when the displaced
\* object is the one unprotected record; the object installed in x is not
\* deleted.
C10_ReplaceRetireScan ==
    [][ScanDone =>
         /\ \A o \in Obj :
               (CountOf(scan[1].L, o) = 1 /\ Protectors(o) = {}) =>
                   /\ deleted[o] = 0 /\ deleted'[o] = 1
                   /\ CountOf(retired'["W"], o) = 0
         /\ scan'[1].ret = Len(scan[1].L) + Len(retired["W"]) - Len(retired'["W"])
         /\ Cardinality(Unprotected(scan[1].L)) = 1 => scan'[1].ret = 1
         /\ deleted'[cellPtr["x"]] = 0]_vars

\* the first object was displaced, retired and freed; replace then made the
\* third object at its address and displaced the second, which was retired
\* and freed by a scan that returned 1; nothing is pending, nothing is
\* protected, the third object is alive in x
C10_Witness ==
    /\ scan[1].pc = "idle" /\ scan[1].ret = 1 /\ deleted[2] = 1
    /\ nMade = 3 /\ nAlloc = 2 /\ freedSum["W"] = 2
    /\ cellPtr["x"] = 1 /\ deleted[1] = 0 /\ retired["W"] = <<>>
    /\ \A h \in Holders : holder[h].ret.kind # "Some"
    /\ writer[1] = NoRef

\* scanner s takes a step of a scan whose detached retire list is empty
EmptyScanStep(s) ==
    /\ scan'[s] # scan[s]
    /\ IF scan[s].pc = "idle" THEN retired[scan'[s].dom] = <<>>
                              ELSE scan[s].L = <<>>

\* C11: a scan that finds the retire list empty invokes no deleter, leaves
\* every retire list, every slot list and every slot as it is, and returns 0.
C11_EmptyScanNoOp ==
    [][\A s \in Scanners :
          EmptyScanStep(s) =>
             /\ UNCHANGED <<deleted, retired, slots, freedSum, domAlive, cellPtr>>
             /\ scan'[s].pc = "idle" => scan'[s].ret = 0]_vars

\* a scan returned 0 although nothing was ever retired, with a slot protecting
\* an object
C11_Witness ==
    /\ scan[1].pc = "idle" /\ scan[1].ret = 0
    /\ retireSum["W"] = 0
    /\ \E i \in 1..Len(slots["W"]) : slots["W"][i].protected # Null

\* the slot of domain d at index i has a holder (live or in the middle of drop)
Owners(d, i) ==
    {h \in Holders : holder[h].st # "none" /\ holder[h].dom = d /\ holder[h].slot = i}

\* C12 (invariant S1): no two holders own the same hazard slot, and a slot
\* that a holder owns is marked active, so that no acquire can take it for a
\* free one.
C12_SlotExclusive ==
    \A d \in Domains : \A i \in 1..Len(slots[d]) :
        /\ Cardinality(Owners(d, i)) <= 1
        /\ Owners(d, i) # {} => slots[d][i].active
        /\ \A h \in Holders :
              (holder[h].st # "none" /\ holder[h].dom = d) => holder[h].slot \in 1..Len(slots[d])

\* both holders own a slot of their own, holder 2 live on the second slot
\* and holder 1, in the middle of its drop, on the first, which is still
\* active
C12_Witness ==
    /\ holder[2].st = "live" /\ holder[2].slot = 2
    /\ holder[1].st = "dropping" /\ holder[1].slot = 1
    /\ Len(slots["W"]) = 2 /\ slots["W"][1].active

\* ------------------------------------------------ domain constructions
\* Further domains are constructed by two threads, each with either witness.
IdsNext ==
    \E t \in Makers :
        \/ \E wit \in Witnesses : DomainNextFetch(t, wit)
        \/ DomainNextBuild(t)

SpecIds == Init /\ [][IdsNext]_vars

\* the identities handed out so far: the two domains of Init, the domains
\* constructed since, and the constructions under way
IdsGiven ==
    <<ids.of["W"], ids.of["R"]>>
      \o [i \in 1..Len(ids.made) |-> ids.made[i].id]
      \o (IF ids.pend[1].id # NoId THEN <<ids.pend[1].id>> ELSE <<>>)
      \o (IF ids.pend[2].id # NoId THEN <<ids.pend[2].id>> ELSE <<>>)

\* C13: any two constructions of a domain yield unequal identities, whatever
\* family witnesses they were given and however they interleave.
C13_IdentitiesDistinct ==
    \A i, j \in 1..Len(IdsGiven) : i # j => IdsGiven[i] # IdsGiven[j]

\* two constructions with the unit witness are under way at once, after a
\* third one with that same witness has finished
C13_Witness ==
    /\ ids.pend[1].id # NoId /\ ids.pend[1].wit = "unit"
    /\ ids.pend[2].id # NoId /\ ids.pend[2].wit = "unit"
    /\ Len(ids.made) = 1 /\ ids.made[1].wit = "unit"

\* the records of domain d that await reclamation: those of its retire list
\* and those of the detached list of a scan of d
Records(d) ==
    {retired[d][i] : i \in 1..Len(retired[d])}
      \cup UNION {{scan[s].L[i] : i \in 1..Len(scan[s].L)} :
                     s \in {t \in Scanners : scan[t].pc = "walk" /\ scan[t].dom = d}}

\* C15: every record that awaits reclamation in a domain holds a pointer and
\* a deleter that a retire call handed to that domain together, and every
\* deleter that a scan or the drop of a domain has run on a pointer is a
\* deleter given to a retire call on that pointer and run by the domain the
\* pointer was retired to, also when records with drop_box and with the
\* shared-count deleter are pending together.
C15_DeleterAsSupplied ==
    /\ \A d \in Domains : \A rec \in Records(d) :
          <<d, rec.deleter>> \in delLog[rec.ptr].supplied
    /\ \A o \in Obj :
          /\ delLog[o].invoked \subseteq delLog[o].supplied
          /\ deleted[o] > 0 => delLog[o].invoked # {}

\* one scan freed two objects, one with drop_box and one with the
\* shared-count deleter
C15_Witness ==
    /\ scan[1].pc = "idle" /\ scan[1].ret = 2
    /\ \E a, b \in Obj :
          /\ delLog[a].invoked = {<<"W", "drop_box">>}
          /\ delLog[b].invoked = {<<"W", "drop_arc">>}

\* ------------------------------------------------------ concurrent swaps
\* Two writers create refs in either domain and swap them into the shared
\* cell x, replace its content, and retire what they hold, with one reader
\* and one scan.
SwapNext ==
    \/ ForDomain(1, "W")
    \/ ProtectLoad(1, "x")
    \/ ProtectStore(1)
    \/ ProtectValidate(1)
    \/ ProtectFail(1)
    \/ DropReset(1)
    \/ DropRelease(1)
    \/ \E w \in Writers :
          \/ \E d \in Domains : Create(w, d)
          \/ Swap(w)
          \/ \E d \in Domains : Replace(w, d)
          \/ RetireRef(w)
    \/ ScanBegin(1, "W")
    \/ ScanWalk(1)
    \/ ScanReclaim(1)

SpecSwap == Init /\ [][SwapNext]_vars

\* writer w takes a step that is a swap of the ref it owns
SwapStep(w) ==
    /\ writer[w].ref = "owned"
    /\ writer'[w] # writer[w]
    /\ writer'[w].ref # "none"

\* writer w takes a step that is a replace: it had no ref, an object is
\* made in the step, and the cell changes or the writer panics
ReplaceStep(w) ==
    /\ writer[w].ref = "none"
    /\ writer'[w] # writer[w]
    /\ nMade' = nMade + 1
    /\ cellPtr' # cellPtr \/ writer'[w].ref = "panicked"

\* the object made in the step lies at address a
MadeAt(a) ==
    /\ a \in FreeAddrs
    /\ nMade' = nMade + 1
    /\ IF a > nAlloc THEN nAlloc' = a
                     ELSE nAlloc' = nAlloc /\ deleted'[a] = 0

\* C14: a swap between refs of unequal domain identities fails its assertion
\* and leaves the cell and the other ref holding what they held; a swap
\* between refs of equal identities leaves the cell holding the other ref's
\* former pointer and the other ref holding the cell's former pointer.  So
\* does a replace with the ref it creates: it installs the object it made
\* and returns the cell's former pointer when the identities are equal, and
\* fails its assertion with the cell as it was when they are not.
C14_SwapAssertsThenExchanges ==
    [][/\ \A w \in Writers :
          SwapStep(w) =>
             IF domain_id("x") = DomainId(objDom[writer[w].ptr])
             THEN /\ cellPtr'["x"] = writer[w].ptr
                  /\ writer'[w] = [ref |-> "owned", ptr |-> cellPtr["x"]]
             ELSE /\ cellPtr' = cellPtr
                  /\ writer'[w] = [ref |-> "panicked", ptr |-> writer[w].ptr]
       /\ \A w \in Writers :
          ReplaceStep(w) =>
             \E a \in FreeAddrs :
                /\ MadeAt(a)
                /\ IF domain_id("x") = DomainId(objDom'[a])
                   THEN /\ cellPtr'["x"] = a
                        /\ writer'[w] = [ref |-> "owned", ptr |-> cellPtr["x"]]
                   ELSE /\ cellPtr' = cellPtr
                        /\ writer'[w].ref = "panicked"]_vars

\* one writer's swap across domains has failed and left its ref with its
\* object of domain R, the other writer's replace with an object of domain R
\* has failed too, and the cell still holds the first object
C14_Witness ==
    /\ writer[1].ref = "panicked" /\ writer[1].ptr # Null
    /\ objDom[writer[1].ptr] = "R"
    /\ writer[2] = Panicked
    /\ cellPtr["x"] = 1 /\ nMade = 3

\* number of places that hold the object at address o: the cell, the
\* writers' refs, and the retire calls made on it
HeldBy(o) ==
    (IF cellPtr["x"] = o THEN 1 ELSE 0)
      + Cardinality({w \in Writers : writer[w].ptr = o})
      + retireCalls[o]

\* C20 as stated: whatever the interleaving of the writers' swap and replace
\* calls on the shared cell, every allocated object is held by exactly one
\* ref, the cell or a writer's, or has been retired exactly once.
C20_PointersConserved ==
    \A o \in 1..nAlloc : HeldBy(o) = 1

\* the objects that no ref holds and that were never retired
Lost == {o \in 1..nAlloc : HeldBy(o) = 0}

\* C20 amended: no object is held by two refs or retired twice, and every
\* object is held by a ref or has been retired, but for the objects made by
\* a replace whose assertion failed: there is one such object, of another
\* identity than the cell, for each writer that panicked in a replace.
C20_ConservedButFailedReplace ==
    /\ \A o \in 1..nAlloc : HeldBy(o) <= 1
    /\ \A o \in Lost : DomainId(objDom[o]) # domain_id("x")
    /\ Cardinality(Lost) = Cardinality({w \in Writers : writer[w] = Panicked})

\* writer 2 holds the first object, displaced by its swap, and the object
\* that writer 1 made in a replace across domains is held by no ref
C20_Witness ==
    /\ writer[2] = [ref |-> "owned", ptr |-> 1]
    /\ writer[1] = Panicked
    /\ cellPtr["x"] \notin {Null, 1} /\ HeldBy(cellPtr["x"]) = 1
    /\ \E o \in Lost : objDom[o] = "R"

\* holder h is inside a call of protect
ProtectRunning(h) ==
    /\ holder[h].st = "live"
    /\ holder[h].pc \in {"loaded", "stored", "failed"} /\ holder[h].mode = "protect"

\* holder h takes the validating reload of a protect call
ProtectReload(h) ==
    /\ ProtectRunning(h) /\ holder[h].pc = "stored"
    /\ holder'[h] # holder[h]

\* C16: with the reader scheduled fairly (the writers change the cell finitely
\* often), every protect call returns; it returns only at a validating
\* reload that found its candidate still in the cell, and returns that
\* pointer; a reload that finds the cell changed makes protect go round the
\* loop, returning nothing.
C16_ProtectReturnsValidated ==
    /\ \A h \in {1} : ProtectRunning(h) ~> ~ProtectRunning(h)
    /\ [][\A h \in {1} :
             /\ (ProtectRunning(h) /\ ~ProtectRunning(h)') =>
                   /\ ProtectReload(h)
                   /\ holder[h].ptr = cellPtr[holder[h].src]
                   /\ holder'[h].pc = "idle"
                   /\ holder'[h].ret =
                         IF holder[h].ptr = Null THEN [kind |-> "None", val |-> Null]
                         ELSE [kind |-> "Some", val |-> cellPtr[holder[h].src]]
             /\ (ProtectReload(h) /\ holder[h].ptr # cellPtr[holder[h].src]) =>
                   /\ ProtectRunning(h)'
                   /\ holder'[h].ret = holder[h].ret]_vars

\* the reader of a protect call has stored its candidate and is about to
\* reload the cell, which holds the same address: that of the third object,
\* made where the freed first one was
C16_Witness ==
    /\ ProtectRunning(1) /\ holder[1].pc = "stored"
    /\ holder[1].ptr = 1 /\ cellPtr["x"] = 1 /\ deleted[1] = 0
    /\ nMade = 3 /\ nAlloc = 2

\* holder h, owner of slot i of domain d before or after the step, takes
\* the step
OwnerStep(h, d, i) ==
    /\ holder'[h] # holder[h]
    /\ \/ holder[h].st # "none" /\ holder[h].dom = d /\ holder[h].slot = i
       \/ holder'[h].st # "none" /\ holder'[h].dom = d /\ holder'[h].slot = i

\* C17 (invariant D2): no step shortens a slot list; a step appends at most
\* one slot, at the end; the slot at an existing position changes only in a
\* step of the holder that owns it, and the release at the end of a holder's
\* drop only flips that slot's active flag.
C17_SlotListOnlyGrows ==
    [][\A d \in Domains :
          /\ Len(slots'[d]) >= Len(slots[d])
          /\ Len(slots'[d]) <= Len(slots[d]) + 1
          /\ \A i \in 1..Len(slots[d]) :
                slots'[d][i] # slots[d][i] => \E h \in Holders : OwnerStep(h, d, i)
          /\ \A h \in Holders :
                (holder[h].st = "dropping" /\ holder[h].dom = d /\ holder'[h].st = "none") =>
                   slots'[d] = [slots[d] EXCEPT ![holder[h].slot].active = FALSE]]_vars

\* the first slot has been released and is still in the list, ahead of the
\* second one, which protects an object that has been replaced and retired
C17_Witness ==
    /\ Len(slots["W"]) = 2
    /\ ~slots["W"][1].active
    /\ slots["W"][2].active /\ slots["W"][2].protected = 1
    /\ retireCalls[1] = 1

\* holder h has come out of for_domain and has not been used yet
Fresh(h) ==
    /\ holder[h].st = "live" /\ holder[h].pc = "idle" /\ holder[h].ret = NoRet

\* C18: every slot that is not active holds null, and so does the slot of a
\* holder that has just been created, also when it is a slot that another
\* holder owned before.
C18_FreeSlotsNull ==
    /\ \A d \in Domains : \A i \in 1..Len(slots[d]) :
          ~slots[d][i].active => slots[d][i].protected = Null
    /\ \A h \in Holders :
          Fresh(h) => slots[holder[h].dom][holder[h].slot].protected = Null

\* holder 1 is new on the first slot while holder 2 is gone and the second
\* slot is back in the pool, after the first object was retired and freed
C18_Witness ==
    /\ Fresh(1) /\ holder[1].slot = 1
    /\ holder[2].st = "none"
    /\ Len(slots["W"]) = 2 /\ ~slots["W"][2].active
    /\ deleted[1] = 1

\* the slot of holder h
SlotOf(h) == slots[holder[h].dom][holder[h].slot]

\* C19: the candidate is in the holder's slot when the validating reload is
\* taken; the attempt returns Ok only if the reload finds the candidate in
\* the cell, and then returns it; and for as long as the holder's last
\* result is that Ok, its slot holds the returned pointer (null for None).
C19_StoreBeforeReload ==
    [][\A h \in Holders :
          /\ (holder[h].st = "live" /\ holder[h].pc = "stored" /\ holder'[h] # holder[h]) =>
                /\ SlotOf(h).protected = holder[h].ptr
                /\ holder'[h].ret.kind \in {"Some", "None"} =>
                      /\ cellPtr[holder[h].src] = holder[h].ptr
                      /\ holder'[h].ret.val = holder[h].ptr
                      /\ holder'[h].ret.kind = "None" <=> holder[h].ptr = Null
          /\ (holder'[h].st = "live" /\ holder'[h].pc = "idle"
                /\ holder'[h].ret.kind \in {"Some", "None"}) =>
                SlotOf(h)'.protected = holder'[h].ret.val]_vars

\* holder 1 has in its slot, as protect or try_protect returned it, the
\* address of the third object, which was made at the address of the freed
\* first one and is in the cell
C19_Witness ==
    /\ Borrow(1, 1) /\ SlotOf(1).protected = 1
    /\ cellPtr["x"] = 1 /\ deleted[1] = 0
    /\ nMade = 3 /\ nAlloc = 2

====
